---- MODULE Spec2Model ----
(***************************************************************************)
(* The Jenkins node of packages/nodes-base/nodes/Jenkins/Jenkins.node.ts:  *)
(* the per-item loop of Jenkins.execute, the request built for every       *)
(* resource/operation, and the credential test buildsGetApiTest.           *)
(*                                                                         *)
(* JavaScript values are tagged records: [t |-> "undefined"],              *)
(* [t |-> "string", v |-> <characters>], [t |-> "number", v |-> n],        *)
(* [t |-> "object", v |-> <record>], [t |-> "dict", v |-> <function>] (an  *)
(* object whose keys are data), [t |-> "array", v |-> <sequence>].         *)
(* A string that is always a string in the source (job, token, baseUrl,    *)
(* an endpoint) is the bare sequence of its characters, so that template   *)
(* literals are concatenations and a trailing slash is a last character.   *)
(***************************************************************************)
EXTENDS Integers, Sequences, FiniteSets, TLC

\* Largest number of input items of one run.
MaxItems == 3
\* Longest list of {name, value} pairs of the collection param.params.
MaxParams == 2
\* Most arguments a call can take before the engine's stack overflows; it
\* stands for the limit of the JavaScript engine (about 125,000 under node 20).
SpreadLimit == 2

-----------------------------------------------------------------------------
\* JavaScript values

Undefined == [t |-> "undefined"]
Str(s) == [t |-> "string", v |-> s]
Num(n) == [t |-> "number", v |-> n]
Obj(r) == [t |-> "object", v |-> r]
Dict(f) == [t |-> "dict", v |-> f]
Arr(s) == [t |-> "array", v |-> s]

\* {} as the object literal of lines 457 and 462 and of the arguments of line 465
EmptyDict == Dict([k \in {} |-> <<>>])

\* Array.isArray of line 558
IsArray(x) == x.t = "array"

\* the truthiness test of `reason` (line 499): a string is truthy iff non-empty
TruthyString(s) == Len(s) # 0

\* the truthiness test of `depth` (line 541): undefined, 0 and '' are falsy
Truthy(x) ==
    CASE x.t = "undefined" -> FALSE
      [] x.t = "number" -> x.v # 0
      [] x.t = "string" -> Len(x.v) # 0
      [] OTHER -> TRUE

-----------------------------------------------------------------------------
\* String literals of the source, as character sequences

LitJob == <<"/", "j", "o", "b", "/">>
LitBuildToken == <<"/", "b", "u", "i", "l", "d", "?", "t", "o", "k", "e", "n", "=">>
LitBuildWithParametersToken ==
    <<"/", "b", "u", "i", "l", "d", "W", "i", "t", "h", "P", "a", "r", "a", "m", "e", "t",
      "e", "r", "s", "?", "t", "o", "k", "e", "n", "=">>
LitCreateItem == <<"/", "c", "r", "e", "a", "t", "e", "I", "t", "e", "m">>
LitQuietDown == <<"/", "q", "u", "i", "e", "t", "D", "o", "w", "n">>
LitCancelQuietDown ==
    <<"/", "c", "a", "n", "c", "e", "l", "Q", "u", "i", "e", "t", "D", "o", "w", "n">>
LitRestart == <<"/", "r", "e", "s", "t", "a", "r", "t">>
LitSafeRestart == <<"/", "s", "a", "f", "e", "R", "e", "s", "t", "a", "r", "t">>
LitExit == <<"/", "e", "x", "i", "t">>
LitSafeExit == <<"/", "s", "a", "f", "e", "E", "x", "i", "t">>
LitApiXml == <<"/", "a", "p", "i", "/", "x", "m", "l">>
LitCopy == <<"c", "o", "p", "y">>
LitApplicationXml ==
    <<"a", "p", "p", "l", "i", "c", "a", "t", "i", "o", "n", "/", "x", "m", "l">>

-----------------------------------------------------------------------------
\* The parameter schema: the (resource, operation) pairs the node offers

JobOperations == {"trigger", "triggerParams", "copy", "create"}
InstanceOperations ==
    {"cancelQuietDown", "quietDown", "restart", "safeRestart", "safeExit", "exit"}
BuildOperations == {"build:getAll"}

Offered ==
    ({"job"} \X JobOperations) \cup ({"instance"} \X InstanceOperations)
        \cup ({"build"} \X BuildOperations)

-----------------------------------------------------------------------------
\* Inputs of a run: credentials, item parameters, responses, error messages

BaseUrls == {<<"h">>, <<"h", "/">>}
Jobs == {<<"a">>, <<"b">>}
Tokens == {<<"t">>}
NewJobs == {<<"n">>, <<"m">>}
Xmls == {<<"<", "p", "/", ">">>}
Reasons == {<<>>, <<"r">>}
\* the property name that assignment treats as the prototype accessor
ProtoKey == <<"_", "_", "p", "r", "o", "t", "o", "_", "_">>
ParamPairs ==
    {[name |-> <<"p">>, value |-> <<"1">>], [name |-> <<"p">>, value |-> <<"2">>],
     [name |-> ProtoKey, value |-> <<"1">>]}
ParamLists == UNION {[1..n -> ParamPairs] : n \in 0..MaxParams}

\* the collection `filters` of lines 346-392: every field may be left unset
Filters ==
    {[depth |-> Undefined, tree |-> Undefined, xpath |-> Undefined, exclude |-> Undefined],
     [depth |-> Num(0), tree |-> Str(<<"t">>), xpath |-> Undefined, exclude |-> Undefined],
     [depth |-> Num(2), tree |-> Undefined, xpath |-> Str(<<"x">>),
      exclude |-> Str(<<"e">>)],
     [depth |-> Undefined, tree |-> Str(<<"t">>), xpath |-> Str(<<"x">>),
      exclude |-> Str(<<"e">>)]}

NoFilters == [depth |-> Undefined, tree |-> Undefined, xpath |-> Undefined,
              exclude |-> Undefined]

\* the parameters of an item before any is resolved (the defaults of the schema)
NoItem ==
    [job |-> <<>>, token |-> <<>>, params |-> Undefined, newJob |-> <<>>,
     xml |-> <<>>, reason |-> <<>>, filters |-> NoFilters]

\* the values the host can hold for one item, per operation: only the
\* parameters the schema shows for the operation are configured
ItemsFor(op) ==
    CASE op = "trigger" ->
            {[NoItem EXCEPT !.job = j, !.token = k] : j \in Jobs, k \in Tokens}
      [] op = "triggerParams" ->
            {[NoItem EXCEPT !.job = j, !.token = k, !.params = p] :
                j \in Jobs, k \in Tokens, p \in {Undefined} \cup {Arr(l) : l \in ParamLists}}
      [] op = "copy" ->
            {[NoItem EXCEPT !.job = j, !.newJob = <<"n">>] : j \in Jobs}
      [] op = "create" ->
            {[NoItem EXCEPT !.newJob = n, !.xml = x] : n \in NewJobs, x \in Xmls}
      [] op = "quietDown" -> {[NoItem EXCEPT !.reason = r] : r \in Reasons}
      [] op = "build:getAll" -> {[NoItem EXCEPT !.filters = f] : f \in Filters}
      [] OTHER -> {NoItem}

E1 == Obj([id |-> "e1"])
E2 == Obj([id |-> "e2"])
R1 == Obj([id |-> "r1"])

\* what the API can answer to a request (decoded JSON)
\* an array with more elements than a call can take as arguments
Oversized == Arr([k \in 1..(SpreadLimit + 1) |-> E1])
Responses == {R1, Arr(<<>>), Arr(<<E1, E2>>), Oversized}
\* the XML text answered to build:getAll, and what xml2js makes of it
XmlText == Str(<<"<", "h", "/", ">">>)
ParsedXml == {R1}
ErrorMessages == {"m1"}
CredentialError == "no credentials"
\* the message of the RangeError of a call with too many arguments
SpreadError == "Maximum call stack size exceeded"
ParseError == "bad xml"

-----------------------------------------------------------------------------
\* The host and the request adapter (GenericFunctions.ts)

\* this.getNodeParameter(name, i, fallback): the configured value, or the fallback
getNodeParameter(configured, fallback) ==
    IF configured = Undefined THEN fallback ELSE configured

\* jenkinsApiRequest.call(this, method, uri, qs, headers, body): the request it issues
jenkinsApiRequest(method, uri, qs, headers, body) ==
    [method |-> method, uri |-> uri, qs |-> qs, headers |-> headers, body |-> body]

\* tolerateTrailingSlash(baseUrl): the base URL without its trailing slash
tolerateTrailingSlash(baseUrl) ==
    IF Len(baseUrl) > 0 /\ baseUrl[Len(baseUrl)] = "/"
    THEN SubSeq(baseUrl, 1, Len(baseUrl) - 1)
    ELSE baseUrl

\* this.helpers.returnJsonArray(returnData): every record wrapped as {json: record}
returnJsonArray(data) == [k \in 1..Len(data) |-> [json |-> data[k]]]

NoRequest == [method |-> "none", uri |-> <<>>, qs |-> Undefined, headers |-> Undefined,
              body |-> Undefined]

-----------------------------------------------------------------------------
\* Jenkins.execute: the request of every branch

\* lines 459-462: params.reduce((body, param) => {body[param.name] = param.value; ...}, {})
\* Assigning to the name __proto__ invokes the prototype setter of the object
\* literal, which ignores a string: no key is created.
RECURSIVE Reduce(_, _)
Reduce(params, body) ==
    IF params = <<>> THEN body
    ELSE LET param == Head(params)
         IN  Reduce(Tail(params),
                    IF param.name = ProtoKey THEN body
                    ELSE [k \in (DOMAIN body) \cup {param.name} |->
                            IF k = param.name THEN param.value ELSE body[k]])

\* lines 456-463: the mapping sent as `data`
ParamsBody(configured) ==
    LET params == getNodeParameter(configured, Arr(<<>>)).v
    IN  IF Len(params) # 0
        THEN Dict(Reduce(params, [k \in {} |-> <<>>]))
        ELSE EmptyDict

\* lines 447-452
TriggerRequest(baseUrl, it) ==
    jenkinsApiRequest("get", baseUrl \o LitJob \o it.job \o LitBuildToken \o it.token,
                      Undefined, Undefined, Undefined)

\* lines 453-466
TriggerParamsRequest(baseUrl, it) ==
    jenkinsApiRequest("get",
                      baseUrl \o LitJob \o it.job \o LitBuildWithParametersToken \o it.token,
                      EmptyDict, EmptyDict, Obj([data |-> ParamsBody(it.params)]))

\* a faulty copy: the query lacks mode=copy, so the API would create, not copy
CopyRequestNoMode(baseUrl, it) ==
    jenkinsApiRequest("post", baseUrl \o LitCreateItem,
                      Obj([name |-> it.newJob, from |-> it.job]),
                      Undefined, Undefined)

\* lines 467-478
CopyRequest(baseUrl, it) ==
    jenkinsApiRequest("post", baseUrl \o LitCreateItem,
                      Obj([name |-> it.newJob, mode |-> LitCopy, from |-> it.job]),
                      Undefined, Undefined)

\* lines 479-492
CreateRequest(baseUrl, it) ==
    jenkinsApiRequest("post", baseUrl \o LitCreateItem,
                      Obj([name |-> it.newJob]),
                      Obj("content-type" :> LitApplicationXml),
                      Str(it.xml))

\* a faulty quietDown: the reason is sent even when it is empty
QuietDownQueryAlways(reason) == Obj([reason |-> reason])

\* lines 497-503: queryParams stays undefined when reason is empty
QuietDownQuery(reason) ==
    IF TruthyString(reason) THEN Obj([reason |-> reason]) ELSE Undefined

\* lines 496-507
QuietDownRequest(baseUrl, it) ==
    jenkinsApiRequest("post", baseUrl \o LitQuietDown, QuietDownQuery(it.reason),
                      Undefined, Undefined)

\* lines 508-527: the five operations that take no parameter
InstanceRequest(baseUrl, op) ==
    LET path == CASE op = "cancelQuietDown" -> LitCancelQuietDown
                  [] op = "restart" -> LitRestart
                  [] op = "safeRestart" -> LitSafeRestart
                  [] op = "exit" -> LitExit
                  [] op = "safeExit" -> LitSafeExit
    IN  jenkinsApiRequest("post", baseUrl \o path, Undefined, Undefined, Undefined)

\* a faulty default: an unset depth is sent as it is
EffectiveDepthNoDefault(depth) == depth

\* line 541: depth ? depth : 1
EffectiveDepth(depth) == IF Truthy(depth) THEN depth ELSE Num(1)

\* lines 534-545
GetAllQuery(filters) ==
    Obj([depth |-> EffectiveDepth(filters.depth), tree |-> filters.tree,
         xpath |-> filters.xpath, exclude |-> filters.exclude])

\* lines 530-547
GetAllRequest(baseUrl, it) ==
    jenkinsApiRequest("get", baseUrl \o LitApiXml, GetAllQuery(it.filters),
                      Undefined, Undefined)

\* lines 446-557: the chain of conditionals on resource and operation; NoRequest
\* when no branch matches
Dispatch(res, op, baseUrl, it) ==
    CASE res = "job" /\ op = "trigger" -> TriggerRequest(baseUrl, it)
      [] res = "job" /\ op = "triggerParams" -> TriggerParamsRequest(baseUrl, it)
      [] res = "job" /\ op = "copy" -> CopyRequest(baseUrl, it)
      [] res = "job" /\ op = "create" -> CreateRequest(baseUrl, it)
      [] res = "instance" /\ op = "quietDown" -> QuietDownRequest(baseUrl, it)
      [] res = "instance"
            /\ op \in {"cancelQuietDown", "restart", "safeRestart", "exit", "safeExit"} ->
            InstanceRequest(baseUrl, op)
      [] res = "build" /\ op = "build:getAll" -> GetAllRequest(baseUrl, it)
      [] OTHER -> NoRequest

\* line 559: push.apply passes every element of the array as an argument of
\* one call, which throws a RangeError when there are too many
SpreadThrows(response) == IsArray(response) /\ Len(response.v) > SpreadLimit

\* a faulty PushResponse: only the first element of an array is appended
PushResponseFirstOnly(data, response) ==
    IF IsArray(response)
    THEN (IF response.v = <<>> \/ SpreadThrows(response) THEN data
          ELSE Append(data, response.v[1]))
    ELSE Append(data, response)

\* lines 558-562: an array response is spread into returnData, anything else
\* is one record; a spread that throws has appended nothing
PushResponse(data, response) ==
    IF IsArray(response)
    THEN (IF SpreadThrows(response) THEN data ELSE data \o response.v)
    ELSE Append(data, response)

\* line 565: the record of a caught error
ErrorRecord(message) == Obj([error |-> message])

-----------------------------------------------------------------------------
\* The state of a node and of one run of it

VARIABLES
    resource,        \* getNodeParameter('resource', 0), line 440
    operation,       \* getNodeParameter('operation', 0), line 441
    continueOnFail,  \* this.continueOnFail(), line 564
    credentials,     \* the decrypted credentials JenkinsApi
    length,          \* items.length, line 438
    pc,              \* where the run is
    i,               \* the loop index of line 443
    item,            \* the parameters of item i resolved in this iteration
    inflight,        \* the request awaited, NoRequest when none is
    responseData,    \* line 439, declared outside the loop
    returnData,      \* line 437
    thrown,          \* the error the run rejected with, "" when none
    result,          \* what execute returned, <<>> before it returns
    credResolutions, \* how often line 445 has called getCredentials
    accessLog,       \* the requests issued so far: item, method, uri, qs
    processed,       \* per finished item, what the environment answered
    testOptions,     \* the options of the request of buildsGetApiTest
    testResult       \* what buildsGetApiTest returned

vars ==
    <<resource, operation, continueOnFail, credentials, length, pc, i, item, inflight,
      responseData, returnData, thrown, result, credResolutions, accessLog, processed,
      testOptions, testResult>>

config == <<resource, operation, continueOnFail, credentials, length>>
testVars == <<testOptions, testResult>>

NoTestResult == [status |-> "none", message |-> ""]

Init ==
    /\ \E pair \in Offered : resource = pair[1] /\ operation = pair[2]
    /\ continueOnFail \in BOOLEAN
    /\ credentials \in [username : {<<"u">>}, apiKey : {<<"k">>}, baseUrl : BaseUrls]
    /\ length \in 1..MaxItems
    /\ pc = "idle"
    /\ i = 0
    /\ item = NoItem
    /\ inflight = NoRequest
    /\ responseData = Undefined
    /\ returnData = <<>>
    /\ thrown = ""
    /\ result = <<>>
    /\ credResolutions = 0
    /\ accessLog = <<>>
    /\ processed = <<>>
    /\ testOptions = NoRequest
    /\ testResult = NoTestResult

\* what the environment answered for an item: the stage it ended at
\* ("credentials", "request", "parse" for a failure, "push" when appending
\* the response threw, "done" for a success), the response when there was one,
\* and by how many records returnData grew while the item was handled
Outcome(stage, response, message, appended) ==
    [stage |-> stage, response |-> response, message |-> message, appended |-> appended]

\* lines 436-441: execute is called; the loop starts at i = 0
ExecuteStart ==
    /\ pc = "idle"
    /\ pc' = "loop"
    /\ i' = 0
    /\ returnData' = <<>>
    /\ UNCHANGED <<config, item, inflight, responseData, thrown, result, credResolutions,
                   accessLog, processed, testVars>>

\* a faulty loop: the credentials are resolved for the first item only
LoopEnterResolvesOnce ==
    /\ pc = "loop"
    /\ i < length
    /\ credResolutions' = IF i = 0 THEN credResolutions + 1 ELSE credResolutions
    /\ pc' = "credentials"
    /\ UNCHANGED <<config, i, item, inflight, responseData, returnData, thrown, result,
                   accessLog, processed, testVars>>

\* lines 443-445: the loop test holds, the try block is entered and
\* getCredentials is awaited
LoopEnter ==
    /\ pc = "loop"
    /\ i < length
    /\ credResolutions' = credResolutions + 1
    /\ pc' = "credentials"
    /\ UNCHANGED <<config, i, item, inflight, responseData, returnData, thrown, result,
                   accessLog, processed, testVars>>

\* lines 443 and 571: the loop test fails, the records are returned
LoopExit ==
    /\ pc = "loop"
    /\ i >= length
    /\ result' = <<returnJsonArray(returnData)>>
    /\ pc' = "returned"
    /\ UNCHANGED <<config, i, item, inflight, responseData, returnData, thrown,
                   credResolutions, accessLog, processed, testVars>>

\* lines 558-562, then i++ of line 443: the response of the item is appended
Push(response) ==
    /\ responseData' = response
    /\ returnData' = PushResponse(returnData, response)
    /\ i' = i + 1
    /\ pc' = "loop"
    /\ item' = NoItem
    /\ inflight' = NoRequest
    /\ UNCHANGED <<thrown, result>>
    /\ processed' = Append(processed,
            Outcome("done", response, "", Len(returnData') - Len(returnData)))

\* a faulty catch block: in failure-tolerant mode it continues without
\* recording the error
CatchDropsRecord(stage, response, message) ==
    /\ item' = NoItem
    /\ inflight' = NoRequest
    /\ IF continueOnFail
       THEN /\ i' = i + 1
            /\ pc' = "loop"
            /\ UNCHANGED <<thrown, returnData>>
       ELSE /\ thrown' = message
            /\ pc' = "thrown"
            /\ UNCHANGED <<returnData, i>>
    /\ responseData' = (IF stage = "push" THEN response ELSE responseData)
    /\ UNCHANGED result
    /\ processed' = Append(processed,
            Outcome(stage, response, message, Len(returnData') - Len(returnData)))

\* a faulty catch block: the error is recorded and the loop continues whatever
\* the mode
CatchAlwaysContinues(stage, response, message) ==
    /\ item' = NoItem
    /\ inflight' = NoRequest
    /\ returnData' = Append(returnData, ErrorRecord(message))
    /\ i' = i + 1
    /\ pc' = "loop"
    /\ responseData' = (IF stage = "push" THEN response ELSE responseData)
    /\ UNCHANGED <<thrown, result>>
    /\ processed' = Append(processed,
            Outcome(stage, response, message, Len(returnData') - Len(returnData)))

\* lines 563-569: the catch block; `response` is what responseData was
\* assigned before the error when the error came from line 559, else Undefined
Catch(stage, response, message) ==
    /\ item' = NoItem
    /\ inflight' = NoRequest
    /\ IF continueOnFail
       THEN /\ returnData' = Append(returnData, ErrorRecord(message))
            /\ i' = i + 1
            /\ pc' = "loop"
            /\ UNCHANGED thrown
       ELSE /\ thrown' = message
            /\ pc' = "thrown"
            /\ UNCHANGED <<returnData, i>>
    /\ responseData' = (IF stage = "push" THEN response ELSE responseData)
    /\ UNCHANGED result
    /\ processed' = Append(processed,
            Outcome(stage, response, message, Len(returnData') - Len(returnData)))

\* lines 558-569: the response is appended, or the error of appending it is caught
Settle(response) ==
    IF SpreadThrows(response)
    THEN Catch("push", response, SpreadError)
    ELSE Push(response)

\* a faulty loop body: the request is issued but not awaited, the loop goes on
\* to the next item while the request is still pending
IssueRequestNoAwait ==
    /\ pc = "credentials"
    /\ \E it \in ItemsFor(operation) :
        LET request == Dispatch(resource, operation, credentials.baseUrl, it)
        IN  /\ item' = it
            /\ inflight' = request
            /\ accessLog' = Append(accessLog,
                    [item |-> i, method |-> request.method, uri |-> request.uri,
                     qs |-> request.qs])
    /\ pc' = "loop"
    /\ i' = i + 1
    /\ UNCHANGED <<config, responseData, returnData, thrown, result, credResolutions,
                   processed, testVars>>

\* lines 445-547: the credentials resolve, the parameters of item i are read
\* and the request of the branch is issued
IssueRequest ==
    /\ pc = "credentials"
    /\ \E it \in ItemsFor(operation) :
        LET request == Dispatch(resource, operation, credentials.baseUrl, it)
        IN  /\ item' = it
            /\ inflight' = request
            /\ accessLog' = Append(accessLog,
                    [item |-> i, method |-> request.method, uri |-> request.uri,
                     qs |-> request.qs])
    /\ pc' = "request"
    /\ UNCHANGED <<config, i, responseData, returnData, thrown, result, credResolutions,
                   processed, testVars>>

\* line 445: getCredentials rejects
CredentialsFail ==
    /\ pc = "credentials"
    /\ Catch("credentials", Undefined, CredentialError)
    /\ UNCHANGED <<config, credResolutions, accessLog, testVars>>

\* lines 451-527 and 558-562: the request of a job or instance operation resolves
RequestResolves ==
    /\ pc = "request"
    /\ resource # "build"
    /\ \E response \in Responses : Settle(response)
    /\ UNCHANGED <<config, credResolutions, accessLog, testVars>>

\* line 547: the request of build:getAll resolves with XML text; parseString is awaited
XmlArrives ==
    /\ pc = "request"
    /\ resource = "build"
    /\ pc' = "parse"
    /\ inflight' = NoRequest
    /\ UNCHANGED <<config, i, item, responseData, returnData, thrown, result,
                   credResolutions, accessLog, processed, testVars>>

\* a request rejects (any branch)
RequestFails ==
    /\ pc = "request"
    /\ \E message \in ErrorMessages : Catch("request", Undefined, message)
    /\ UNCHANGED <<config, credResolutions, accessLog, testVars>>

\* lines 548-555 and 558-562: parseString calls back with the parsed object
ParseResolves ==
    /\ pc = "parse"
    /\ \E data \in ParsedXml : Settle(data)
    /\ UNCHANGED <<config, credResolutions, accessLog, testVars>>

\* lines 550-552: parseString calls back with an error
ParseRejects ==
    /\ pc = "parse"
    /\ Catch("parse", Undefined, ParseError)
    /\ UNCHANGED <<config, credResolutions, accessLog, testVars>>

\* lines 402-417: the options of the request of buildsGetApiTest; the token is
\* the base64 form of username:apiKey
TestOptions(credential) ==
    [headers |-> Obj([Authorization |-> <<"Basic", credential.username, ":",
                                          credential.apiKey>>]),
     method |-> "GET",
     body |-> EmptyDict,
     qs |-> EmptyDict,
     uri |-> tolerateTrailingSlash(credential.baseUrl) \o LitApiXml,
     json |-> TRUE]

\* lines 402-417 and 420: buildsGetApiTest issues its request
TestStart ==
    /\ pc = "idle"
    /\ testOptions' = TestOptions(credentials)
    /\ pc' = "testing"
    /\ UNCHANGED <<config, i, item, inflight, responseData, returnData, thrown, result,
                   credResolutions, accessLog, processed, testResult>>

\* lines 420-424
TestResolves ==
    /\ pc = "testing"
    /\ testResult' = [status |-> "OK", message |-> "Authentication successful"]
    /\ pc' = "tested"
    /\ UNCHANGED <<config, i, item, inflight, responseData, returnData, thrown, result,
                   credResolutions, accessLog, processed, testOptions>>

\* lines 425-430
TestFails ==
    /\ pc = "testing"
    /\ \E message \in ErrorMessages :
        testResult' = [status |-> "Error", message |-> message]
    /\ pc' = "tested"
    /\ UNCHANGED <<config, i, item, inflight, responseData, returnData, thrown, result,
                   credResolutions, accessLog, processed, testOptions>>

Next ==
    \/ ExecuteStart
    \/ LoopEnter
    \/ LoopExit
    \/ IssueRequest
    \/ CredentialsFail
    \/ RequestResolves
    \/ XmlArrives
    \/ RequestFails
    \/ ParseResolves
    \/ ParseRejects
    \/ TestStart
    \/ TestResolves
    \/ TestFails

Spec == Init /\ [][Next]_vars

-----------------------------------------------------------------------------
\* Properties of Jenkins.execute

\* the records a sequence of item outcomes must have left in the output: the
\* elements of an array response, a non-array response itself, {error: message}
\* for a failure
RECURSIVE ExpectedRecords(_)
ExpectedRecords(outcomes) ==
    IF outcomes = <<>> THEN <<>>
    ELSE LET o == Head(outcomes)
             own == IF o.stage # "done" THEN <<Obj([error |-> o.message])>>
                    ELSE IF o.response.t = "array" THEN o.response.v
                    ELSE <<o.response>>
         IN  own \o ExpectedRecords(Tail(outcomes))

Failed(k) == processed[k].stage # "done"
NoArrayResponse == \A k \in DOMAIN processed : processed[k].response.t # "array"
\* the run was aborted by the item handled last
Aborted == pc = "thrown"
\* the items that were handled to the end: all but the one that aborted the run
Completed == IF Aborted THEN SubSeq(processed, 1, Len(processed) - 1) ELSE processed

\* C1: in failure-tolerant mode the run never aborts and handles every input
\* item; when no successful response is an array, the output has exactly one
\* record per item, in input order, and the record at the position of a failed
\* item is exactly {error: <the message of that item's error>}.
C1_TolerantOneRecordPerItem ==
    continueOnFail =>
        /\ pc # "thrown"
        /\ thrown = ""
        /\ pc = "returned" => Len(processed) = length
        /\ NoArrayResponse =>
            /\ Len(returnData) = Len(processed)
            /\ \A k \in DOMAIN processed :
                returnData[k] = IF Failed(k) THEN Obj([error |-> processed[k].message])
                                ELSE processed[k].response
            /\ pc = "returned" =>
                /\ Len(result[1]) = length
                /\ \A k \in 1..length : result[1][k] = [json |-> returnData[k]]

\* three items, the second fails, tolerance on: three records, the second the error
C1_Witness ==
    /\ continueOnFail
    /\ pc = "returned"
    /\ length = 3
    /\ ~Failed(1) /\ Failed(2) /\ ~Failed(3)
    /\ processed[2].stage = "request"
    /\ NoArrayResponse
    /\ Len(returnData) = 3
    /\ returnData[2] = Obj([error |-> processed[2].message])

\* C2: with failure-tolerant mode off, the first failing item k aborts the run
\* with that item's error: nothing runs afterwards, no request was issued for
\* an item after k, and the output collection holds exactly the records of
\* the items before k.
C2_AbortKeepsEarlierRecords ==
    (~continueOnFail /\ \E k \in DOMAIN processed : Failed(k)) =>
        LET k == Len(processed)
        IN  /\ \A j \in 1..(k - 1) : ~Failed(j)
            /\ pc = "thrown"
            /\ thrown = processed[k].message
            /\ i = k - 1
            /\ \A e \in DOMAIN accessLog : accessLog[e].item <= k - 1
            /\ returnData = ExpectedRecords(SubSeq(processed, 1, k - 1))
            /\ result = <<>>
            /\ ~ENABLED Next

\* three items, the second fails, tolerance off: the one record of item 1 remains
C2_Witness ==
    /\ ~continueOnFail
    /\ pc = "thrown"
    /\ length = 3
    /\ Len(processed) = 2
    /\ processed[1].response = R1
    /\ processed[2].stage = "request"
    /\ returnData = <<R1>>
    /\ Len(accessLog) = 2

\* a response arrived for item k (the request, and the parse, resolved)
Answered(k) == processed[k].stage \in {"done", "push"}

\* C3 as claimed: every item whose response is an array of length N appended
\* exactly N records, the elements of the array in their order, after all
\* records of earlier items; every item whose response is not an array
\* appended exactly one record.
C3_ArraysAreSpreadInOrder ==
    \A k \in DOMAIN processed :
        Answered(k) =>
            LET own == IF processed[k].response.t = "array" THEN processed[k].response.v
                       ELSE <<processed[k].response>>
                before == ExpectedRecords(SubSeq(processed, 1, k - 1))
            IN  /\ processed[k].appended = Len(own)
                /\ Len(returnData) >= Len(before) + Len(own)
                /\ SubSeq(returnData, Len(before) + 1, Len(before) + Len(own)) = own

\* what remains true of C3: the output is the concatenation, in item order,
\* of what each handled item contributed, and an array whose spread does not
\* throw contributes its N elements in order, any other response one record
C3_SpreadWithinLimit ==
    /\ returnData = ExpectedRecords(Completed)
    /\ \A k \in DOMAIN processed :
        ~Failed(k) =>
            processed[k].appended =
                IF processed[k].response.t = "array" THEN Len(processed[k].response.v)
                ELSE 1

\* the base URL with one trailing slash added, and with it removed
WithSlash(b) == IF b # <<>> /\ b[Len(b)] = "/" THEN b ELSE Append(b, "/")
WithoutSlash(b) == IF b # <<>> /\ b[Len(b)] = "/" THEN SubSeq(b, 1, Len(b) - 1) ELSE b

\* C4: the URI of a request does not depend on whether the credential's baseUrl
\* ends with a slash: the URI execute issues, and the URI of buildsGetApiTest,
\* are the ones issued for the same base URL written the other way.
C4_TrailingSlashIsIrrelevant ==
    /\ pc = "request" =>
        /\ inflight.uri =
            Dispatch(resource, operation, WithSlash(credentials.baseUrl), item).uri
        /\ inflight.uri =
            Dispatch(resource, operation, WithoutSlash(credentials.baseUrl), item).uri
    /\ pc = "testing" =>
        /\ testOptions.uri =
            TestOptions([credentials EXCEPT !.baseUrl = WithSlash(@)]).uri
        /\ testOptions.uri =
            TestOptions([credentials EXCEPT !.baseUrl = WithoutSlash(@)]).uri

\* the half of C4 that holds: the credential test strips the trailing slash
C4_TestUriIgnoresSlash ==
    pc = "testing" =>
        /\ testOptions.uri =
            TestOptions([credentials EXCEPT !.baseUrl = WithSlash(@)]).uri
        /\ testOptions.uri =
            TestOptions([credentials EXCEPT !.baseUrl = WithoutSlash(@)]).uri

\* C5 as claimed: a run resolves the credentials once, whatever the number of
\* items, and a failed resolution never shows as the error record of some
\* items while other items succeed.
C5_ResolvedOncePerRun ==
    /\ credResolutions <= 1
    /\ pc = "returned" => credResolutions = 1
    /\ ~ \E j, k \in DOMAIN processed :
            processed[j].stage = "credentials" /\ processed[k].stage # "credentials"

\* how many items the loop has entered the try block for
Started == Len(processed) + (IF pc \in {"credentials", "request", "parse"} THEN 1 ELSE 0)

\* C5, amended: the credentials are resolved once per item the loop starts
\* (line 445 is inside the loop and inside the try), so a run that returns has
\* resolved them `length` times, and a failed resolution is the failure of
\* that item alone: in failure-tolerant mode it appends one error record for
\* the item and issues no request for it, otherwise it aborts the run.
C5_ResolvedOncePerItem ==
    /\ credResolutions = Started
    /\ pc = "returned" => credResolutions = length
    /\ \A k \in DOMAIN processed :
        processed[k].stage = "credentials" =>
            /\ \A e \in DOMAIN accessLog : accessLog[e].item # k - 1
            /\ IF continueOnFail
               THEN /\ processed[k].appended = 1
                    /\ Obj([error |-> CredentialError]) \in
                        {returnData[n] : n \in DOMAIN returnData}
               ELSE /\ k = Len(processed)
                    /\ pc = "thrown"
                    /\ thrown = CredentialError

\* three items: the resolution fails for the second only, three resolutions
C5_Witness ==
    /\ pc = "returned"
    /\ length = 3
    /\ credResolutions = 3
    /\ processed[1].stage = "done"
    /\ processed[2].stage = "credentials"
    /\ processed[3].stage = "done"

\* C6 as claimed: every item handled to the end appended at least one record.
C6_AtLeastOneRecordPerItem ==
    \A k \in DOMAIN Completed : processed[k].appended >= 1

\* C6, amended: an item handled to the end appends one error record when it
\* failed (appending an array too long to spread is such a failure), else the
\* N elements of a response that is an array of length N, else one record; so
\* it appends at least one record unless its response is an empty array, and
\* then it appends none.
C6_AtLeastOneUnlessEmptyArray ==
    \A k \in DOMAIN Completed :
        /\ Failed(k) => processed[k].appended = 1
        /\ (~Failed(k) /\ processed[k].response.t # "array") => processed[k].appended = 1
        /\ (~Failed(k) /\ processed[k].response.t = "array") =>
            processed[k].appended = Len(processed[k].response.v)
        /\ processed[k].appended >= 1 \/ processed[k].response = Arr(<<>>)
        /\ Len(returnData) >= Cardinality({j \in DOMAIN Completed :
                                              processed[j].response # Arr(<<>>)})

\* an item answered with an empty array left no record, the next one did
C6_Witness ==
    /\ Len(processed) = 2
    /\ processed[1].response = Arr(<<>>)
    /\ processed[1].appended = 0
    /\ processed[2].response = R1
    /\ returnData = <<R1>>

\* C7 as claimed: the body of the request of triggerParams is {data: M}; the
\* keys of M are exactly the names of the list param.params, each mapped to
\* the value of the last pair of that name; M is empty for an empty or absent
\* list.
C7_ParamsFoldLastWins ==
    (pc = "request" /\ operation = "triggerParams") =>
        LET list == IF item.params = Undefined THEN <<>> ELSE item.params.v
            names == {list[k].name : k \in DOMAIN list}
            last(n) == CHOOSE k \in DOMAIN list :
                        /\ list[k].name = n
                        /\ \A j \in DOMAIN list : list[j].name = n => j <= k
            M == [n \in names |-> list[last(n)].value]
        IN  /\ inflight.body = Obj([data |-> Dict(M)])
            /\ DOMAIN inflight.body.v.data.v = names
            /\ list = <<>> => inflight.body.v.data.v = <<>>

\* what remains true of C7: the keys of M are the names of the list other
\* than __proto__, each mapped to the value of the last pair of that name
C7_FoldExceptProto ==
    (pc = "request" /\ operation = "triggerParams") =>
        LET list == IF item.params = Undefined THEN <<>> ELSE item.params.v
            names == {list[k].name : k \in DOMAIN list} \ {ProtoKey}
            last(n) == CHOOSE k \in DOMAIN list :
                        /\ list[k].name = n
                        /\ \A j \in DOMAIN list : list[j].name = n => j <= k
            M == [n \in names |-> list[last(n)].value]
        IN  inflight.body = Obj([data |-> Dict(M)])

\* the characters of the words of the endpoint table
Slash == <<"/">>
WordJob == <<"j", "o", "b">>
WordBuild == <<"b", "u", "i", "l", "d">>
WordBuildWithParameters ==
    <<"b", "u", "i", "l", "d", "W", "i", "t", "h", "P", "a", "r", "a", "m", "e", "t", "e",
      "r", "s">>
WordTokenQuery == <<"?", "t", "o", "k", "e", "n", "=">>
WordCreateItem == <<"c", "r", "e", "a", "t", "e", "I", "t", "e", "m">>
WordApi == <<"a", "p", "i">>
WordXml == <<"x", "m", "l">>
\* the name of an instance operation, spelled out
OperationWord(op) ==
    CASE op = "quietDown" -> <<"q", "u", "i", "e", "t", "D", "o", "w", "n">>
      [] op = "cancelQuietDown" ->
            <<"c", "a", "n", "c", "e", "l", "Q", "u", "i", "e", "t", "D", "o", "w", "n">>
      [] op = "restart" -> <<"r", "e", "s", "t", "a", "r", "t">>
      [] op = "safeRestart" -> <<"s", "a", "f", "e", "R", "e", "s", "t", "a", "r", "t">>
      [] op = "exit" -> <<"e", "x", "i", "t">>
      [] op = "safeExit" -> <<"s", "a", "f", "e", "E", "x", "i", "t">>

\* the HTTP verb a method string stands for
Verb(method) ==
    CASE method = "get" -> "GET" [] method = "post" -> "POST" [] OTHER -> "?"

\* the verb and the URI of the endpoint table, for base URL b and item it
TableVerb(op) == IF op \in {"trigger", "triggerParams", "build:getAll"} THEN "GET" ELSE "POST"
TableUri(op, b, it) ==
    CASE op = "trigger" ->
            b \o Slash \o WordJob \o Slash \o it.job \o Slash \o WordBuild
              \o WordTokenQuery \o it.token
      [] op = "triggerParams" ->
            b \o Slash \o WordJob \o Slash \o it.job \o Slash \o WordBuildWithParameters
              \o WordTokenQuery \o it.token
      [] op \in {"copy", "create"} -> b \o Slash \o WordCreateItem
      [] op = "build:getAll" -> b \o Slash \o WordApi \o Slash \o WordXml
      [] OTHER -> b \o Slash \o OperationWord(op)

\* the requests issued for item k (1-based)
RequestsOf(k) == {e \in DOMAIN accessLog : accessLog[e].item = k - 1}

\* C8: every offered (resource, operation) issues, for an item handled without
\* error, exactly one request, with the verb and the URI of the endpoint
\* table; copy sends the query {name, mode: copy, from: job}; create sends the
\* query {name}, the header content-type: application/xml and the XML as body.
C8_OneRequestPerItemAsTabled ==
    /\ pc = "request" =>
        /\ Verb(inflight.method) = TableVerb(operation)
        /\ inflight.uri = TableUri(operation, credentials.baseUrl, item)
        /\ operation = "copy" =>
            inflight.qs = Obj([name |-> item.newJob, mode |-> <<"c", "o", "p", "y">>,
                               from |-> item.job])
        /\ operation = "create" =>
            /\ inflight.qs = Obj([name |-> item.newJob])
            /\ DOMAIN inflight.headers.v = {"content-type"}
            /\ inflight.headers.v["content-type"] =
                <<"a", "p", "p", "l", "i", "c", "a", "t", "i", "o", "n", "/", "x", "m", "l">>
            /\ inflight.body = Str(item.xml)
    /\ \A k \in DOMAIN processed :
        ~Failed(k) =>
            /\ Cardinality(RequestsOf(k)) = 1
            /\ \A e \in RequestsOf(k) :
                /\ Verb(accessLog[e].method) = TableVerb(operation)
                /\ \E j \in Jobs, t \in Tokens :
                    accessLog[e].uri =
                        TableUri(operation, credentials.baseUrl,
                                 [NoItem EXCEPT !.job = j, !.token = t])

\* a copy request in flight for the second item, the first one handled
C8_Witness ==
    /\ pc = "request"
    /\ operation = "copy"
    /\ Len(processed) = 1
    /\ ~Failed(1)
    /\ Len(accessLog) = 2
    /\ inflight.qs.v.from = item.job
    /\ item.job = <<"b">>

\* C9: an instance operation is a POST to {baseUrl}/{operation}; quietDown
\* sends the query {reason} exactly when the reason is non-empty, the other
\* five send no query; nothing is deduplicated: every item whose credentials
\* resolved has issued its own request.
C9_OnlyQuietDownSendsAQuery ==
    resource = "instance" =>
        /\ pc = "request" =>
            inflight.qs = IF operation = "quietDown" /\ item.reason # <<>>
                          THEN Obj([reason |-> item.reason])
                          ELSE Undefined
        /\ \A e \in DOMAIN accessLog :
            /\ accessLog[e].method = "post"
            /\ accessLog[e].uri = credentials.baseUrl \o Slash \o OperationWord(operation)
            /\ operation # "quietDown" => accessLog[e].qs = Undefined
            /\ accessLog[e].qs \in {Undefined} \cup {Obj([reason |-> r]) : r \in Reasons \ {<<>>}}
        /\ Len(accessLog) =
            Cardinality({k \in DOMAIN processed : processed[k].stage # "credentials"})
                + (IF pc = "request" THEN 1 ELSE 0)
        /\ \A k \in DOMAIN processed :
            processed[k].stage # "credentials" => Cardinality(RequestsOf(k)) = 1

\* three items quietDown without a reason: three POSTs without a query
C9_Witness ==
    /\ operation = "quietDown"
    /\ pc = "returned"
    /\ length = 3
    /\ Len(accessLog) = 3
    /\ \A e \in DOMAIN accessLog : accessLog[e].qs = Undefined /\ accessLog[e].method = "post"

\* C10: for build:getAll the query's depth is 1 whenever the item's filters
\* leave depth unset, and tree, xpath and exclude are the item's own.
C10_DepthDefaultsToOne ==
    (pc = "request" /\ operation = "build:getAll") =>
        /\ item.filters.depth = Undefined => inflight.qs.v.depth = Num(1)
        /\ inflight.qs.v.tree = item.filters.tree
        /\ inflight.qs.v.xpath = item.filters.xpath
        /\ inflight.qs.v.exclude = item.filters.exclude
        /\ DOMAIN inflight.qs.v = {"depth", "tree", "xpath", "exclude"}

\* depth unset, the other three filters set
C10_Witness ==
    /\ pc = "request"
    /\ operation = "build:getAll"
    /\ item.filters.depth = Undefined
    /\ item.filters.tree = Str(<<"t">>)
    /\ inflight.qs.v.depth = Num(1)
    /\ inflight.qs.v.xpath = Str(<<"x">>)

\* the requests whose item is not settled yet: its response has not been
\* appended, its failure not caught and, for build:getAll, its XML not parsed
Unsettled == {e \in DOMAIN accessLog : accessLog[e].item >= Len(processed)}

\* C11: the items are handled one after the other, in index order: the
\* requests are issued in increasing item order, at most one request is
\* awaited at any time, and a request for an item exists only when every
\* earlier item is settled (its request completed or failed and, for
\* build:getAll, its XML parse resolved or rejected).
C11_StrictlySequential ==
    /\ \A e, f \in DOMAIN accessLog : e < f => accessLog[e].item < accessLog[f].item
    /\ \A e \in DOMAIN accessLog :
        /\ accessLog[e].item <= Len(processed)
        /\ accessLog[e].item <= i
    /\ Cardinality(Unsettled) <= 1
    /\ (Unsettled # {}) <=> (pc \in {"request", "parse"})
    /\ (inflight # NoRequest) <=> (pc = "request")
    /\ pc = "request" =>
        /\ accessLog[Len(accessLog)].item = i
        /\ Len(processed) = i
    /\ pc = "parse" =>
        /\ resource = "build"
        /\ accessLog[Len(accessLog)].item = i
        /\ Len(processed) = i

\* build:getAll, three items: the first request failed, the XML of the second
\* was rejected, and only then is the third request awaited
C11_Witness ==
    /\ operation = "build:getAll"
    /\ continueOnFail
    /\ length = 3
    /\ pc = "request"
    /\ i = 2
    /\ Len(accessLog) = 3
    /\ processed[1].stage = "request"
    /\ processed[2].stage = "parse"
    /\ Unsettled = {3}

====
